---- MODULE Spec2Model ----
(***************************************************************************)
(* A model of the Effect programs of the curriculum: the resource scopes   *)
(* of 04-resource-management.md and the fibers of 05-concurrency.md.       *)
(* Three specifications share the module:                                  *)
(*   SpecScope  one fiber running Effect.scoped bodies (nested scopes,     *)
(*              acquireRelease, addFinalizer, the four exit causes);       *)
(*   SpecFiber  a parent fiber that forks, joins and interrupts children;  *)
(*   SpecAll    Effect.all over a list of descriptions.                    *)
(***************************************************************************)
EXTENDS Integers, Sequences, FiniteSets, TLC

\* ------------------------------------------------------------------ bounds
MaxFinalizers == 2
MaxScopes == 2
MaxUses == 1
MaxChildren == 2
MaxFiberFinalizers == 1
MaxJoins == 2
MaxTasks == 3

\* ------------------------------------------------------- SpecScope: state
VARIABLES
    scopes,     \* stack of open scopes, innermost last: [id, fins]
    phase,      \* "body" | "closing" | "done"
    exit,       \* outcome being propagated: "none" or an element of Exits
    log,        \* the observable trace (console.log lines of the examples)
    nextId,     \* next finalizer id; ids grow in registration order
    nextScope   \* next scope id; ids grow in opening order

scopeVars == <<scopes, phase, exit, log, nextId, nextScope>>

\* ------------------------------------------------------- SpecFiber: state
VARIABLES
    pstatus,    \* status of the parent (main) fiber
    pout,       \* stored outcome of the parent fiber
    pwait,      \* the call the parent is suspended in: [op, c], op "none" if none
    status,     \* status of each child fiber
    kind,       \* "none" | "fork" | "daemon": how the child was forked
    cpc,        \* "body" | "closing": where a running child is
    cfins,      \* finalizers registered by the child and not yet run
    sig,        \* an interruption has been sent to the child
    bodyOut,    \* how the child's body ended ("none" while it runs)
    outcome,    \* stored outcome of each child fiber
    joinCount,  \* Fiber.join calls on the child that have returned
    joined,     \* what the last returned Fiber.join on the child yielded
    intrRun,    \* children that were Running when Fiber.interrupt was called
    intrRet,    \* children whose Fiber.interrupt call has returned
    aliveAtExit \* children that were Running when the parent exited

fiberVars == <<pstatus, pout, pwait, status, kind, cpc, cfins, sig, bodyOut,
               outcome, joinCount, joined, intrRun, intrRet, aliveAtExit>>

\* --------------------------------------------------------- SpecAll: state
VARIABLES
    conc,        \* the concurrency option: 1 (sequential) .. number of tasks (unbounded)
    tstate,      \* "pending" | "running" | "succeeded" | "failed" | "interrupted"
    done,        \* indices of the succeeded tasks, in completion order
    results,     \* the result array being collected (0: no result yet)
    allStatus,   \* "idle" | "running" | "failing" | "succeeded" | "failed"
    reported,    \* what Effect.all yielded: [tag, list, error]
    firstFailed, \* the tasks whose failure was observed first (same instant)
    inFlight     \* the other tasks that were running at that instant

allVars == <<conc, tstate, done, results, allStatus, reported, firstFailed, inFlight>>

\* -------------------------------------------------------- SpecRace: state
VARIABLES
    rmode,      \* "idle" | "race" | "timeout"
    rst,        \* status of each participant's fiber
    rpc,        \* "body" | "closing": where a running participant is
    rout,       \* how the participant's body ended ("none" while it runs)
    rfins,      \* finalizers registered by the participant and not yet run
    rran,       \* finalizers of the participant that have run
    rsig,       \* an interruption has been sent to the participant
    rfinished,  \* the participants in the order they reached a terminal state
    rreport     \* what the race / the timeout yielded

raceVars == <<rmode, rst, rpc, rout, rfins, rran, rsig, rfinished, rreport>>

\* ------------------------------------------------------- SpecRetry: state
VARIABLES
    mode,       \* "idle" | "retry" | "repeat"
    sched,      \* the schedule: [a, b, composed, filtered]
    attempts,   \* what each run of the description ended with, in order
    delays,     \* the delay the schedule gave before each re-run, in order
    decisions,  \* what the two schedules decided at each consulted step
    clock,      \* time elapsed in the delays
    rphase,     \* "run" | "decide" | "wait" | "done"
    rresult     \* what retry / repeat reported

retryVars == <<mode, sched, attempts, delays, decisions, clock, rphase, rresult>>

\* ------------------------------------------------------- SpecChain: state
VARIABLES
    handlers,   \* the handlers piped after the chain and not yet passed
    stage,      \* the next stage of the chain to execute
    executed,   \* the stages executed, in execution order: [stage, out]
    cur,        \* the outcome travelling down the pipe: [tag, value, error]
    piped,      \* the handlers passed: [h, before, ran, after]
    cphase,     \* "idle" | "chain" | "handlers" | "done"
    final       \* the outcome of the whole pipe

chainVars == <<handlers, stage, executed, cur, piped, cphase, final>>

\* ----------------------------------------------- SpecChain: the runner
VARIABLES
    runner,     \* "idle" | "runSync" | "runPromise" | "runSyncExit" | "runPromiseExit"
    returned    \* what the runner gave its caller: [how, exit]

runVars == <<runner, returned>>

\* ----------------------------------------------------- SpecRelease: state
VARIABLES
    held,       \* the resources whose release is registered, oldest first
    acquired,   \* acquireRelease steps reached so far
    refused,    \* the resources whose acquire step failed
    primary,    \* how the body of Effect.scoped ended: [tag, src, id]
    released,   \* the finalizers run so far, in order: [id, ok]
    sphase,     \* "idle" | "body" | "closing" | "done"
    sreport     \* the outcome Effect.scoped reported

releaseVars == <<held, acquired, refused, primary, released, sphase, sreport>>

\* --------------------------------------------------------- SpecMap: state
VARIABLES
    md,         \* the description that is mapped: the outcome it ends with
    mf,         \* the function of the first Effect.map
    mg,         \* the function of the second Effect.map
    twice,      \* the result of pipe(d, Effect.map(f), Effect.map(g))
    once,       \* the result of the single Effect.map by the composition
    mpc         \* "idle" | "start" | "mapped" | "done"

mapVars == <<md, mf, mg, twice, once, mpc>>

\* ---------------------------------------------------- SpecLongTask: state
VARIABLES
    now,        \* the time, in seconds
    childSleep, \* the sleep of longTask between two steps
    parentSleep,\* the sleep of the program before Fiber.interrupt
    childWake,  \* when the sleep of longTask expires
    parentWake, \* when the sleep of the program expires
    nextStep,   \* the value of i in longTask
    output,     \* the console output, in order
    tstatus,    \* "idle" | "Running" | "Interrupted": the forked fiber
    ppc         \* "idle" | "sleep" | "interrupting" | "done": the program

taskVars == <<now, childSleep, parentSleep, childWake, parentWake, nextStep, output, tstatus, ppc>>

\* The state of the specifications of the common patterns.
VARIABLES
    kpc,        \* "body" | "closing" | "done": where the scoped fiber is
    ksusp,      \* "none" | "sleep" | "join": what its body is suspended in
    kfins,      \* ids of the finalizers registered and not yet run
    kruns,      \* ids of the finalizers run, in the order they ran
    ksig,       \* who has sent the fiber an interruption
    kout,       \* how the body ended ("none" while it runs)
    kends,      \* the terminal states the fiber has entered
    kwait,      \* calls on the fiber their caller is suspended in
    kret        \* calls on the fiber that have returned

cleanupVars == <<kpc, ksusp, kfins, kruns, ksig, kout, kends, kwait, kret>>

patternVars ==
    <<raceVars, retryVars, chainVars, runVars, releaseVars, mapVars, taskVars,
      cleanupVars>>

vars == <<scopeVars, fiberVars, allVars, patternVars>>

Exits == {"Success", "Failure", "Die", "Interrupt"}

Last(s) == s[Len(s)]
Front(s) == SubSeq(s, 1, Len(s) - 1)

RECURSIVE Reverse(_)
Reverse(s) == IF s = <<>> THEN <<>> ELSE Append(Reverse(Tail(s)), Head(s))

Event(op, id, scope, out) == [op |-> op, id |-> id, scope |-> scope, out |-> out]

NumUses == Cardinality({i \in DOMAIN log : log[i].op = "use"})

\* The resources (acquireRelease values) still held by an open scope.
Held == UNION {{f.id : f \in {s.fins[i] : i \in DOMAIN s.fins}} : s \in {scopes[k] : k \in DOMAIN scopes}}

\* Register a finalizer on the innermost open scope.
Register(how) ==
    /\ scopes' = [scopes EXCEPT ![Len(scopes)].fins =
                      Append(@, [id |-> nextId, how |-> how])]
    /\ log' = Append(log, Event(how, nextId, Last(scopes).id, "none"))
    /\ nextId' = nextId + 1

\* Effect.scoped( ... ): the outermost scope is open when the body starts.
InitScope ==
    /\ scopes = << [id |-> 1, fins |-> <<>>] >>
    /\ phase = "body"
    /\ exit = "none"
    /\ log = << Event("open", 0, 1, "none") >>
    /\ nextId = 1
    /\ nextScope = 2

\* yield* Effect.acquireRelease(acquire, release): the acquisition succeeds
\* and release is registered on the enclosing scope.
AcquireRelease ==
    /\ phase = "body"
    /\ nextId <= MaxFinalizers
    /\ Register("acquire")
    /\ UNCHANGED <<fiberVars, allVars, patternVars, phase, exit, nextScope>>

\* yield* Effect.addFinalizer(action)
AddFinalizer ==
    /\ phase = "body"
    /\ nextId <= MaxFinalizers
    /\ Register("addFinalizer")
    /\ UNCHANGED <<fiberVars, allVars, patternVars, phase, exit, nextScope>>

\* console.log("Using:", r.data): a use of an acquired, unreleased resource.
Use ==
    /\ phase = "body"
    /\ NumUses < MaxUses
    /\ \E r \in Held :
          /\ \E k \in DOMAIN scopes : \E i \in DOMAIN scopes[k].fins :
                scopes[k].fins[i] = [id |-> r, how |-> "acquire"]
          /\ log' = Append(log, Event("use", r, Last(scopes).id, "none"))
    /\ UNCHANGED <<fiberVars, allVars, patternVars, scopes, phase, exit, nextId, nextScope>>

\* yield* Effect.scoped( ... ) inside a scoped body: a nested scope opens.
ScopedOpen ==
    /\ phase = "body"
    /\ nextScope <= MaxScopes
    /\ scopes' = Append(scopes, [id |-> nextScope, fins |-> <<>>])
    /\ log' = Append(log, Event("open", 0, nextScope, "none"))
    /\ nextScope' = nextScope + 1
    /\ UNCHANGED <<fiberVars, allVars, patternVars, phase, exit, nextId>>

\* The body of the innermost scope ends: it returns, fails (Effect.fail) or
\* dies (Effect.die, a throw in Effect.sync).
BodyEnd ==
    /\ phase = "body"
    /\ \E e \in {"Success", "Failure", "Die"} : exit' = e
    /\ phase' = "closing"
    /\ UNCHANGED <<fiberVars, allVars, patternVars, scopes, log, nextId, nextScope>>

\* The fiber running the body is interrupted from outside while it runs.
BodyInterrupted ==
    /\ phase = "body"
    /\ exit' = "Interrupt"
    /\ phase' = "closing"
    /\ UNCHANGED <<fiberVars, allVars, patternVars, scopes, log, nextId, nextScope>>

\* Faulty variant: finalizers run in registration order.
NextFinalizerFifo(fins) == 1

\* The finalizer the closing scope runs next: the most recently registered.
NextFinalizer(fins) == Len(fins)

\* Faulty variant: the outermost scope is closed first.
ClosingScopeOuterFirst == CHOOSE k \in DOMAIN scopes : \A j \in DOMAIN scopes : k <= j

\* The scope that is closed first when the body has ended: the innermost.
ClosingScope == Len(scopes)

\* Closing a scope runs one of its finalizers.
RunFinalizer ==
    /\ phase = "closing"
    /\ LET k == ClosingScope
           fins == scopes[k].fins
       IN /\ fins # <<>>
          /\ LET i == NextFinalizer(fins) IN
             /\ scopes' = [scopes EXCEPT ![k].fins =
                   SubSeq(fins, 1, i - 1) \o SubSeq(fins, i + 1, Len(fins))]
             /\ log' = Append(log, Event("fin", fins[i].id, scopes[k].id, "none"))
    /\ UNCHANGED <<fiberVars, allVars, patternVars, phase, exit, nextId, nextScope>>

\* Faulty variant: the scope reports without waiting for its finalizers.
MayReportEarly(scope) == TRUE

\* A closing scope may report once its finalizers have all run.
MayReport(scope) == scope.fins = <<>>

\* The closed scope reports the body's outcome to what encloses it: the
\* enclosing body continues after a success, and is itself ended otherwise.
ScopeReport ==
    /\ phase = "closing"
    /\ MayReport(Last(scopes))
    /\ log' = Append(log, Event("report", 0, Last(scopes).id, exit))
    /\ scopes' = Front(scopes)
    /\ IF Len(scopes) = 1
       THEN phase' = "done" /\ exit' = exit
       ELSE IF exit = "Success"
            THEN phase' = "body" /\ exit' = "none"
            ELSE phase' = "closing" /\ exit' = exit
    /\ UNCHANGED <<fiberVars, allVars, patternVars, nextId, nextScope>>

\* ---------------------------------------------------- SpecFiber: actions
Children == 1..MaxChildren
Terminal == {"Succeeded", "Failed", "Interrupted"}
NoOutcome == [tag |-> "none", by |-> 0]
NoCall == [op |-> "none", c |-> 0]

InitFiber ==
    /\ pstatus = "Running"
    /\ pout = NoOutcome
    /\ pwait = NoCall
    /\ status = [c \in Children |-> "NotForked"]
    /\ kind = [c \in Children |-> "none"]
    /\ cpc = [c \in Children |-> "body"]
    /\ cfins = [c \in Children |-> 0]
    /\ sig = [c \in Children |-> FALSE]
    /\ bodyOut = [c \in Children |-> "none"]
    /\ outcome = [c \in Children |-> NoOutcome]
    /\ joinCount = [c \in Children |-> 0]
    /\ joined = [c \in Children |-> NoOutcome]
    /\ intrRun = {}
    /\ intrRet = {}
    /\ aliveAtExit = {}

\* Faulty variant: a fiber that has completed still counts as live.
IsStarted(c) == status[c] # "NotForked"

\* The fiber has been forked and has not reached a terminal state.
IsRunning(c) == status[c] = "Running"

\* The terminal state of a fiber: Interrupted when an interruption reached it
\* before it finished, otherwise what its body ended with.
ExitStatus(out, interrupted) ==
    IF interrupted \/ out = "Interrupt" THEN "Interrupted"
    ELSE IF out = "Success" THEN "Succeeded" ELSE "Failed"

\* Faulty variant: no child is tied to its parent.
SupervisedNone(c) == FALSE

\* Faulty variant: every child is tied to its parent.
SupervisedAll(c) == kind[c] # "none"

\* Effect.fork ties the child to its parent; Effect.forkDaemon does not.
Supervised(c) == kind[c] = "fork"

\* The parent fiber exits with outcome o: the children tied to it that are
\* still running are interrupted.
ParentExit(o, by) ==
    /\ pstatus' = ExitStatus(o, FALSE)
    /\ pout' = [tag |-> ExitStatus(o, FALSE), by |-> by]
    /\ pwait' = NoCall
    /\ sig' = [c \in Children |-> sig[c] \/ (IsRunning(c) /\ Supervised(c))]
    /\ aliveAtExit' = {c \in Children : IsRunning(c)}

ParentIdle == pstatus = "Running" /\ pwait = NoCall

RECURSIVE Sum(_, _)
Sum(f, S) == IF S = {} THEN 0
             ELSE LET x == CHOOSE y \in S : TRUE IN f[x] + Sum(f, S \ {x})

\* Fiber.join calls that have returned so far.
NumJoins == Sum(joinCount, Children)

\* const fiber = yield* Effect.fork(task) / Effect.forkDaemon(backgroundTask)
Fork ==
    /\ ParentIdle
    /\ \E c \in Children, k \in {"fork", "daemon"} :
          /\ kind[c] = "none"
          /\ \A d \in Children : d < c => kind[d] # "none"
          /\ kind' = [kind EXCEPT ![c] = k]
          /\ status' = [status EXCEPT ![c] = "Running"]
    /\ UNCHANGED <<scopeVars, allVars, patternVars, pstatus, pout, pwait, cpc, cfins, sig, bodyOut, outcome,
                   joinCount, joined, intrRun, intrRet, aliveAtExit>>

\* The child acquires a resource in its scope (taskWithCleanup).
ChildAcquire ==
    /\ \E c \in Children :
          /\ IsRunning(c) /\ cpc[c] = "body" /\ ~sig[c]
          /\ cfins[c] < MaxFiberFinalizers
          /\ cfins' = [cfins EXCEPT ![c] = @ + 1]
    /\ UNCHANGED <<scopeVars, allVars, patternVars, pstatus, pout, pwait, status, kind, cpc, sig, bodyOut,
                   outcome, joinCount, joined, intrRun, intrRet, aliveAtExit>>

\* The child's body returns or fails on its own.
ChildBodyEnd ==
    /\ \E c \in Children, o \in {"Success", "Failure"} :
          /\ IsRunning(c) /\ cpc[c] = "body" /\ ~sig[c]
          /\ bodyOut' = [bodyOut EXCEPT ![c] = o]
          /\ cpc' = [cpc EXCEPT ![c] = "closing"]
    /\ UNCHANGED <<scopeVars, allVars, patternVars, pstatus, pout, pwait, status, kind, cfins, sig, outcome,
                   joinCount, joined, intrRun, intrRet, aliveAtExit>>

\* The interruption reaches the child while its body is suspended (in a
\* sleep): the body is abandoned and the scope starts closing.
ChildInterrupted ==
    /\ \E c \in Children :
          /\ IsRunning(c) /\ cpc[c] = "body" /\ sig[c]
          /\ bodyOut' = [bodyOut EXCEPT ![c] = "Interrupt"]
          /\ cpc' = [cpc EXCEPT ![c] = "closing"]
    /\ UNCHANGED <<scopeVars, allVars, patternVars, pstatus, pout, pwait, status, kind, cfins, sig, outcome,
                   joinCount, joined, intrRun, intrRet, aliveAtExit>>

\* The child's closing scope runs one finalizer ("Cleaned up!").
ChildRunFinalizer ==
    /\ \E c \in Children :
          /\ IsRunning(c) /\ cpc[c] = "closing" /\ cfins[c] > 0
          /\ cfins' = [cfins EXCEPT ![c] = @ - 1]
    /\ UNCHANGED <<scopeVars, allVars, patternVars, pstatus, pout, pwait, status, kind, cpc, sig, bodyOut,
                   outcome, joinCount, joined, intrRun, intrRet, aliveAtExit>>

\* Faulty variant: the fiber terminates without running its finalizers.
MayFinishEarly(c) == TRUE

\* A closing fiber terminates once its finalizers have all run.
MayFinish(c) == cfins[c] = 0

\* The child reaches its terminal state and stores its outcome.
ChildFinish ==
    /\ \E c \in Children :
          /\ IsRunning(c) /\ cpc[c] = "closing" /\ MayFinish(c)
          /\ status' = [status EXCEPT ![c] = ExitStatus(bodyOut[c], sig[c])]
          /\ outcome' = [outcome EXCEPT ![c] =
                            [tag |-> ExitStatus(bodyOut[c], sig[c]), by |-> c]]
    /\ UNCHANGED <<scopeVars, allVars, patternVars, pstatus, pout, pwait, kind, cpc, cfins, sig, bodyOut,
                   joinCount, joined, intrRun, intrRet, aliveAtExit>>

\* yield* Fiber.join(fiber): the parent suspends in the call.
JoinCall ==
    /\ ParentIdle
    /\ \E c \in Children :
          /\ kind[c] # "none"
          /\ NumJoins < MaxJoins
          /\ pwait' = [op |-> "join", c |-> c]
    /\ UNCHANGED <<scopeVars, allVars, patternVars, pstatus, pout, status, kind, cpc, cfins, sig, bodyOut,
                   outcome, joinCount, joined, intrRun, intrRet, aliveAtExit>>

\* Faulty variant: join does not wait for the fiber.
MayJoinAnyTime(c) == TRUE

\* Fiber.join waits for the fiber to complete.
MayJoin(c) == status[c] \in Terminal

\* What a join on a failed or interrupted target raises in the caller.
Reraised(c) == IF status[c] = "Interrupted" THEN "Interrupt" ELSE "Failure"

\* Fiber.join returns: the stored value on success; a failure or an
\* interruption of the target ends the caller the same way.
JoinReturn ==
    /\ pstatus = "Running"
    /\ pwait.op = "join"
    /\ LET c == pwait.c IN
       /\ MayJoin(c)
       /\ joinCount' = [joinCount EXCEPT ![c] = @ + 1]
       /\ joined' = [joined EXCEPT ![c] = outcome[c]]
       /\ IF status[c] = "Succeeded"
          THEN /\ pwait' = NoCall
               /\ UNCHANGED <<pstatus, pout, sig, aliveAtExit>>
          ELSE ParentExit(Reraised(c), c)
    /\ UNCHANGED <<scopeVars, allVars, patternVars, status, kind, cpc, cfins, bodyOut, outcome, intrRun, intrRet>>

\* yield* Fiber.interrupt(fiber): the interruption is sent to a running
\* target (a completed one is left alone) and the parent suspends.
InterruptCall ==
    /\ ParentIdle
    /\ \E c \in Children :
          /\ kind[c] # "none"
          /\ c \notin intrRet
          /\ sig' = [sig EXCEPT ![c] = @ \/ IsRunning(c)]
          /\ intrRun' = IF IsRunning(c) THEN intrRun \cup {c} ELSE intrRun
          /\ pwait' = [op |-> "interrupt", c |-> c]
    /\ UNCHANGED <<scopeVars, allVars, patternVars, pstatus, pout, status, kind, cpc, cfins, bodyOut, outcome,
                   joinCount, joined, intrRet, aliveAtExit>>

\* Fiber.interrupt returns once the target has terminated.
MayReturnInterrupt(c) == status[c] \in Terminal

InterruptReturn ==
    /\ pstatus = "Running"
    /\ pwait.op = "interrupt"
    /\ MayReturnInterrupt(pwait.c)
    /\ intrRet' = intrRet \cup {pwait.c}
    /\ pwait' = NoCall
    /\ UNCHANGED <<scopeVars, allVars, patternVars, pstatus, pout, status, kind, cpc, cfins, sig, bodyOut,
                   outcome, joinCount, joined, intrRun, aliveAtExit>>

\* The parent's program returns, fails or dies.
ParentEnd ==
    /\ ParentIdle
    /\ \E o \in {"Success", "Failure", "Die"} : ParentExit(o, 0)
    /\ UNCHANGED <<scopeVars, allVars, patternVars, status, kind, cpc, cfins, bodyOut, outcome, joinCount,
                   joined, intrRun, intrRet>>

\* The parent is interrupted from outside, wherever it is suspended.
ParentInterrupted ==
    /\ pstatus = "Running"
    /\ ParentExit("Interrupt", 0)
    /\ UNCHANGED <<scopeVars, allVars, patternVars, status, kind, cpc, cfins, bodyOut, outcome, joinCount,
                   joined, intrRun, intrRet>>

\* ------------------------------------------------------ SpecAll: actions
Tasks == 1..MaxTasks
NoReport == [tag |-> "none", list |-> <<>>, error |-> 0]

\* The value task i succeeds with, and the error it fails with.
Value(i) == 10 * i
Error(i) == 100 + i

Running == {i \in Tasks : tstate[i] = "running"}

\* Effect.all has not been started (the other specifications).
IdleAll ==
    /\ conc = 0
    /\ tstate = [i \in Tasks |-> "pending"]
    /\ done = <<>>
    /\ results = [i \in Tasks |-> 0]
    /\ allStatus = "idle"
    /\ reported = NoReport
    /\ firstFailed = {}
    /\ inFlight = {}

\* Effect.all([task1, ...], { concurrency }): sequential is 1, "unbounded"
\* is the number of tasks.
InitAll ==
    /\ conc \in 1..MaxTasks
    /\ tstate = [i \in Tasks |-> "pending"]
    /\ done = <<>>
    /\ results = [i \in Tasks |-> 0]
    /\ allStatus = "running"
    /\ reported = NoReport
    /\ firstFailed = {}
    /\ inFlight = {}

\* Faulty variant: a task starts whatever the number of running tasks.
HasFreeSlotAlways(n) == TRUE

\* { concurrency: n }: fewer than n tasks are running.
HasFreeSlot(n) == Cardinality(Running) < n

\* The next task, in input order, starts when fewer than conc are running.
StartTask ==
    /\ allStatus = "running"
    /\ HasFreeSlot(conc)
    /\ \E i \in Tasks :
          /\ tstate[i] = "pending"
          /\ \A j \in Tasks : j < i => tstate[j] # "pending"
          /\ tstate' = [tstate EXCEPT ![i] = "running"]
    /\ UNCHANGED <<scopeVars, fiberVars, patternVars, conc, done, results, allStatus, reported,
                   firstFailed, inFlight>>

\* Faulty variant: the result is stored at the next free position.
StoreByCompletion(i, v) == [results EXCEPT ![Len(done) + 1] = v]

\* The result of task i is stored at position i of the result array.
Store(i, v) == [results EXCEPT ![i] = v]

\* A running task succeeds and its result is collected.
TaskSucceeds ==
    /\ allStatus = "running"
    /\ \E i \in Running :
          /\ tstate' = [tstate EXCEPT ![i] = "succeeded"]
          /\ results' = Store(i, Value(i))
          /\ done' = Append(done, i)
    /\ UNCHANGED <<scopeVars, fiberVars, patternVars, conc, allStatus, reported,
                   firstFailed, inFlight>>

\* Running tasks fail at the same instant (a single one in the usual case):
\* the first failure has been observed, so no further task is started and
\* the tasks still in flight are interrupted.
TasksFail ==
    /\ allStatus = "running"
    /\ \E F \in SUBSET Running :
          /\ F # {}
          /\ tstate' = [i \in Tasks |-> IF i \in F THEN "failed" ELSE tstate[i]]
          /\ firstFailed' = F
          /\ inFlight' = Running \ F
    /\ allStatus' = "failing"
    /\ UNCHANGED <<scopeVars, fiberVars, patternVars, conc, done, results, reported>>

\* A task in flight when the failure was observed ends Interrupted.
TaskInterrupted ==
    /\ allStatus = "failing"
    /\ \E i \in Running : tstate' = [tstate EXCEPT ![i] = "interrupted"]
    /\ UNCHANGED <<scopeVars, fiberVars, patternVars, conc, done, results, allStatus, reported,
                   firstFailed, inFlight>>

\* Faulty variant: the failure of the highest input index is reported.
ReportedFailureLast == Error(CHOOSE i \in firstFailed : \A j \in firstFailed : j <= i)

\* The failure Effect.all reports: among the failures observed first, that
\* of the lowest input index.
ReportedFailure == Error(CHOOSE i \in firstFailed : \A j \in firstFailed : i <= j)

\* Faulty variant: the failure is reported while tasks are still running.
MayReportFailureEarly == TRUE

\* The failure is reported once no task is left running.
MayReportFailure == Running = {}

\* Effect.all reports: the list of results, or the failure.
AllReport ==
    /\ \/ /\ allStatus = "running"
          /\ \A i \in Tasks : tstate[i] = "succeeded"
          /\ allStatus' = "succeeded"
          /\ reported' = [tag |-> "Success", list |-> results, error |-> 0]
       \/ /\ allStatus = "failing"
          /\ MayReportFailure
          /\ allStatus' = "failed"
          /\ reported' = [tag |-> "Failure", list |-> <<>>, error |-> ReportedFailure]
    /\ UNCHANGED <<scopeVars, fiberVars, patternVars, conc, tstate, done, results, firstFailed,
                   inFlight>>

\* ----------------------------------------------------- SpecRace: actions
MaxRacers == 2
MaxRaceFinalizers == 1

Racers == 1..MaxRacers

\* Effect.timeout(slowTask, d) races slowTask against a timer.
Description == 1
Timer == 2

notRace ==
    <<scopeVars, fiberVars, allVars, retryVars, chainVars, runVars, releaseVars,
      mapVars, taskVars,
      cleanupVars>>

NoRaceReport == [tag |-> "none", some |-> FALSE, value |-> 0, error |-> 0]

\* The fibers a race runs: all the given effects; a timeout runs two.
Participants == IF rmode = "timeout" THEN {Description, Timer} ELSE Racers

\* No race has been started (the other specifications).
IdleRace ==
    /\ rmode = "idle"
    /\ rst = [p \in Racers |-> "NotForked"]
    /\ rpc = [p \in Racers |-> "body"]
    /\ rout = [p \in Racers |-> "none"]
    /\ rfins = [p \in Racers |-> 0]
    /\ rran = [p \in Racers |-> 0]
    /\ rsig = [p \in Racers |-> FALSE]
    /\ rfinished = <<>>
    /\ rreport = NoRaceReport

\* yield* Effect.race(fast, slow) / Effect.raceAll(sources) /
\* Effect.timeout(slowTask, "5 seconds"): the participants are running.
InitRace ==
    /\ rmode \in {"race", "timeout"}
    /\ rst = [p \in Racers |-> IF p \in Participants THEN "Running" ELSE "NotForked"]
    /\ rpc = [p \in Racers |-> "body"]
    /\ rout = [p \in Racers |-> "none"]
    /\ rfins = [p \in Racers |-> 0]
    /\ rran = [p \in Racers |-> 0]
    /\ rsig = [p \in Racers |-> FALSE]
    /\ rfinished = <<>>
    /\ rreport = NoRaceReport

\* The timer of a timeout is a sleep: it holds no resource and cannot fail.
IsTimer(p) == rmode = "timeout" /\ p = Timer

RacerInBody(p) == rst[p] = "Running" /\ rpc[p] = "body"

\* A participant acquires a resource in its scope.
RacerAcquire ==
    /\ \E p \in Participants :
          /\ RacerInBody(p) /\ ~rsig[p] /\ ~IsTimer(p)
          /\ rfins[p] < MaxRaceFinalizers
          /\ rfins' = [rfins EXCEPT ![p] = @ + 1]
    /\ UNCHANGED <<notRace, rmode, rst, rpc, rout, rran, rsig, rfinished, rreport>>

\* A participant's body returns or fails on its own; the timer fires.
RacerBodyEnd ==
    /\ \E p \in Participants, o \in {"Success", "Failure"} :
          /\ RacerInBody(p) /\ ~rsig[p]
          /\ IsTimer(p) => o = "Success"
          /\ rout' = [rout EXCEPT ![p] = o]
          /\ rpc' = [rpc EXCEPT ![p] = "closing"]
    /\ UNCHANGED <<notRace, rmode, rst, rfins, rran, rsig, rfinished, rreport>>

\* The interruption reaches a participant suspended in its body.
RacerInterrupted ==
    /\ \E p \in Participants :
          /\ RacerInBody(p) /\ rsig[p]
          /\ rout' = [rout EXCEPT ![p] = "Interrupt"]
          /\ rpc' = [rpc EXCEPT ![p] = "closing"]
    /\ UNCHANGED <<notRace, rmode, rst, rfins, rran, rsig, rfinished, rreport>>

\* A participant's closing scope runs one finalizer.
RacerRunFinalizer ==
    /\ \E p \in Participants :
          /\ rst[p] = "Running" /\ rpc[p] = "closing" /\ rfins[p] > 0
          /\ rfins' = [rfins EXCEPT ![p] = @ - 1]
          /\ rran' = [rran EXCEPT ![p] = @ + 1]
    /\ UNCHANGED <<notRace, rmode, rst, rpc, rout, rsig, rfinished, rreport>>

\* Faulty variant: the loser is left running.
CancelledNone(p, st) == {}

\* The participants that are cancelled when p reaches the terminal state
\* st: a success cancels the rest (slow was automatically cancelled); the
\* failure of a timeout's description ends the timeout, so the timer goes.
Cancelled(p, st) ==
    IF st = "Succeeded" \/ (rmode = "timeout" /\ st = "Failed")
    THEN {q \in Participants \ {p} : rst[q] = "Running"}
    ELSE {}

\* A participant reaches its terminal state; the race observes it in the
\* same step (fibers do not preempt each other mid-step).
RacerFinish ==
    /\ \E p \in Participants :
          /\ rst[p] = "Running" /\ rpc[p] = "closing" /\ rfins[p] = 0
          /\ LET st == ExitStatus(rout[p], rsig[p]) IN
             /\ rst' = [rst EXCEPT ![p] = st]
             /\ rsig' = [q \in Racers |-> rsig[q] \/ q \in Cancelled(p, st)]
          /\ rfinished' = Append(rfinished, p)
    /\ UNCHANGED <<notRace, rmode, rpc, rout, rfins, rran, rreport>>

RacePos(p) == CHOOSE i \in DOMAIN rfinished : rfinished[i] = p
RaceSucceeded == {p \in Participants : rst[p] = "Succeeded"}

\* The participant that succeeded first.
Winner == CHOOSE p \in RaceSucceeded : \A q \in RaceSucceeded : RacePos(p) <= RacePos(q)

\* Faulty variant: Effect.timeoutFail, the timeout is a failure.
OnTimeoutFail == [tag |-> "Failure", some |-> FALSE, value |-> 0, error |-> Error(Timer)]

\* Effect.timeout returns Option<A>: None if timeout.
OnTimeout == [tag |-> "Success", some |-> FALSE, value |-> 0, error |-> 0]

\* What the race yields when p has won.
RaceValue(p) ==
    IF IsTimer(p) THEN OnTimeout
    ELSE [tag |-> "Success", some |-> TRUE, value |-> Value(p), error |-> 0]

\* Faulty variant: the race reports as soon as one participant is terminal.
MayReportRaceEarly == rfinished # <<>>

\* The race reports once every participant has terminated: the loser has
\* been interrupted, or all of them have failed.
MayReportRace == \A p \in Participants : rst[p] \in Terminal

\* The race / the timeout reports: the winner's value, or the failure.
RaceReport ==
    /\ rmode # "idle"
    /\ rreport = NoRaceReport
    /\ MayReportRace
    /\ rreport' = IF RaceSucceeded # {} THEN RaceValue(Winner)
                  ELSE [tag |-> "Failure", some |-> FALSE, value |-> 0,
                        error |-> Error(Head(rfinished))]
    /\ UNCHANGED <<notRace, rmode, rst, rpc, rout, rfins, rran, rsig, rfinished>>

\* ---------------------------------------------------- SpecRetry: actions
MaxRecurs == 2
MaxDelay == 2
MaxAttempts == 4

notRetry ==
    <<scopeVars, fiberVars, allVars, raceVars, chainVars, runVars, releaseVars,
      mapVars, taskVars,
      cleanupVars>>

\* Schedule.recurs(n), Schedule.spaced(duration), Schedule.exponential(base)
Recurs(k) == [kind |-> "recurs", n |-> k, d |-> 0]
Spaced(d) == [kind |-> "spaced", n |-> 0, d |-> d]
Exponential(base) == [kind |-> "exponential", n |-> 0, d |-> base]

BaseSchedules ==
    {Recurs(k) : k \in 0..MaxRecurs} \cup {Spaced(d) : d \in 1..MaxDelay}
        \cup {Exponential(1)}

\* A schedule: one of the above, two of them intersected, and either of
\* these filtered by Schedule.whileInput on the error.
Schedules ==
    {[a |-> s, b |-> s, composed |-> "single", filtered |-> f] :
        s \in BaseSchedules, f \in BOOLEAN}
    \cup {[a |-> s, b |-> t, composed |-> "intersect", filtered |-> f] :
        s \in BaseSchedules, t \in BaseSchedules, f \in BOOLEAN}

\* The errors of fetchData, and what a run of the description ended with.
ErrorTags == {"NetworkError", "ValidationError"}
Succeeded(v) == [tag |-> "Success", value |-> v, error |-> "none"]
FailedWith(e) == [tag |-> "Failure", value |-> 0, error |-> e]
NoResult == [tag |-> "none", value |-> 0, error |-> "none"]

\* A schedule's decision at a step: continue after a delay, or stop.
Continue(delay) == [cont |-> TRUE, delay |-> delay]
Stop == [cont |-> FALSE, delay |-> 0]

\* Faulty variant: recurs(k) allows one recurrence more.
RecursContinuesOneMore(k, n) == n <= k

\* Schedule.recurs(k) continues at a step when fewer than k recurrences
\* have been made.
RecursContinues(k, n) == n < k

\* The decision of a built-in schedule after n recurrences.
BaseStep(s, n) ==
    IF s.kind = "recurs"
    THEN (IF RecursContinues(s.n, n) THEN Continue(0) ELSE Stop)
    ELSE IF s.kind = "spaced" THEN Continue(s.d)
    ELSE Continue(s.d * 2 ^ n)

Longer(x, y) == IF x >= y THEN x ELSE y
Shorter(x, y) == IF x <= y THEN x ELSE y

\* Faulty variant: the intersection uses the shorter delay.
IntersectShorter(d1, d2) ==
    IF d1.cont /\ d2.cont THEN Continue(Shorter(d1.delay, d2.delay)) ELSE Stop

\* Schedule.intersect: both conditions must be met (5 times, 1s apart).
Intersect(d1, d2) ==
    IF d1.cont /\ d2.cont THEN Continue(Longer(d1.delay, d2.delay)) ELSE Stop

\* Faulty variant: every error is retried.
RetryableAny(e) == TRUE

\* Schedule.whileInput((error) => error._tag === "NetworkError")
Retryable(e) == e = "NetworkError"

\* The decision of the composed schedule after n recurrences.
Composed(sch, n) ==
    IF sch.composed = "single" THEN BaseStep(sch.a, n)
    ELSE Intersect(BaseStep(sch.a, n), BaseStep(sch.b, n))

\* The decision of the whole schedule after n recurrences, on an input.
SchedStep(sch, n, input) ==
    IF sch.filtered /\ ~Retryable(input) THEN Stop ELSE Composed(sch, n)

\* Neither retry nor repeat has been started (the other specifications).
IdleRetry ==
    /\ mode = "idle"
    /\ sched = [a |-> Recurs(0), b |-> Recurs(0), composed |-> "single",
                filtered |-> FALSE]
    /\ attempts = <<>>
    /\ delays = <<>>
    /\ decisions = <<>>
    /\ clock = 0
    /\ rphase = "done"
    /\ rresult = NoResult

\* Effect.retry(description, schedule) / Effect.repeat(description,
\* schedule): the first run of the description is about to start.
InitRetry ==
    /\ mode \in {"retry", "repeat"}
    /\ sched \in Schedules
    /\ mode = "repeat" => ~sched.filtered
    /\ attempts = <<>>
    /\ delays = <<>>
    /\ decisions = <<>>
    /\ clock = 0
    /\ rphase = "run"
    /\ rresult = NoResult

\* One run of the description: it succeeds, or fails with a tagged error.
RunDescription ==
    /\ rphase = "run"
    /\ Len(attempts) < MaxAttempts
    /\ \E o \in {Succeeded(Value(Len(attempts) + 1))}
                    \cup {FailedWith(e) : e \in ErrorTags} :
          attempts' = Append(attempts, o)
    /\ rphase' = "decide"
    /\ UNCHANGED <<notRetry, mode, sched, delays, decisions, clock, rresult>>

\* The schedule is consulted on the input: it continues after a delay, or
\* it stops and `stopped` is reported.
Consult(input, stopped) ==
    LET n == Len(delays)
        dec == SchedStep(sched, n, input)
    IN /\ decisions' = Append(decisions,
              [a |-> BaseStep(sched.a, n), b |-> BaseStep(sched.b, n),
               pass |-> ~sched.filtered \/ Retryable(input), out |-> dec])
       /\ IF dec.cont
          THEN /\ delays' = Append(delays, dec.delay)
               /\ rphase' = "wait"
               /\ UNCHANGED rresult
          ELSE /\ rphase' = "done"
               /\ rresult' = stopped
               /\ UNCHANGED delays

\* Effect.retry: runs again on failure, stops when the description succeeds.
RetryDecide ==
    /\ mode = "retry"
    /\ rphase = "decide"
    /\ LET last == Last(attempts) IN
       IF last.tag = "Success"
       THEN /\ rphase' = "done"
            /\ rresult' = last
            /\ UNCHANGED <<delays, decisions>>
       ELSE Consult(last.error, last)
    /\ UNCHANGED <<notRetry, mode, sched, attempts, clock>>

\* Faulty variant: repeat runs again whatever the run ended with.
RepeatsAfterAny(o) == TRUE

\* Effect.repeat: runs again on success.
RepeatsAfter(o) == o.tag = "Success"

\* Effect.repeat: continues after a success, stops at a failure.
RepeatDecide ==
    /\ mode = "repeat"
    /\ rphase = "decide"
    /\ LET last == Last(attempts) IN
       IF RepeatsAfter(last)
       THEN Consult("none", last)
       ELSE /\ rphase' = "done"
            /\ rresult' = last
            /\ UNCHANGED <<delays, decisions>>
    /\ UNCHANGED <<notRetry, mode, sched, attempts, clock>>

\* The delay the schedule gave passes before the next run.
Wait ==
    /\ rphase = "wait"
    /\ clock' = clock + Last(delays)
    /\ rphase' = "run"
    /\ UNCHANGED <<notRetry, mode, sched, attempts, delays, decisions, rresult>>

\* ---------------------------------------------------- SpecChain: actions
MaxStages == 3
MaxHandlers == 2

notChain ==
    <<scopeVars, fiberVars, allVars, raceVars, retryVars, releaseVars, mapVars,
      taskVars,
      cleanupVars>>

\* The _tag of the expected failures of the examples.
Tags == {"DivisionError", "NetworkError", "TimeoutError"}

\* Effect.die / a throw inside Effect.sync, and an interruption.
Died == [tag |-> "Die", value |-> 0, error |-> "defect"]
Interrupted == [tag |-> "Interrupt", value |-> 0, error |-> "none"]

\* Effect.catchAll(f), Effect.catchTag(tag, f), Effect.catchTags({...})
CatchAll == [how |-> "catchAll", tags |-> Tags]
CatchTag(t) == [how |-> "catchTag", tags |-> {t}]
CatchTags(S) == [how |-> "catchTags", tags |-> S]

Handlers ==
    {CatchAll} \cup {CatchTag(t) : t \in Tags}
        \cup {CatchTags(S) : S \in {T \in SUBSET Tags : Cardinality(T) >= 2}}

RECURSIVE SeqsUpTo(_, _)
\* The sequences over S of length at most n.
SeqsUpTo(S, n) ==
    IF n = 0 THEN {<<>>}
    ELSE LET shorter == SeqsUpTo(S, n - 1)
         IN shorter \cup {Append(q, x) : q \in shorter, x \in S}

\* No pipe is being run (the other specifications).
IdleChain ==
    /\ handlers = <<>>
    /\ stage = 1
    /\ executed = <<>>
    /\ cur = NoResult
    /\ piped = <<>>
    /\ cphase = "idle"
    /\ final = NoResult

\* pipe(Effect.gen(function* () { yield* ...; yield* ...; }),
\*      Effect.catchTag(...), ...) is run.
InitChain ==
    /\ handlers \in SeqsUpTo(Handlers, MaxHandlers)
    /\ stage = 1
    /\ executed = <<>>
    /\ cur = NoResult
    /\ piped = <<>>
    /\ cphase = "chain"
    /\ final = NoResult

\* What a stage can end with: a value, an expected failure, a defect, or
\* the interruption of the fiber while the stage runs.
StageOutcomes(k) ==
    {Succeeded(Value(k))} \cup {FailedWith(e) : e \in Tags} \cup {Died, Interrupted}

\* Faulty variant: the chain goes on to the next stage whatever happened.
ContinuesAfterAny(o) == TRUE

\* The generator is resumed at its next yield* only with a value.
ContinuesAfter(o) == o.tag = "Success"

\* The next stage of the chain is executed.
StageRuns ==
    /\ cphase = "chain"
    /\ \E o \in StageOutcomes(stage) :
          /\ executed' = Append(executed, [stage |-> stage, out |-> o])
          /\ cur' = o
          /\ IF ContinuesAfter(o) /\ stage < MaxStages
             THEN stage' = stage + 1 /\ cphase' = "chain"
             ELSE stage' = stage /\ cphase' = "handlers"
    /\ UNCHANGED <<notChain, runVars, handlers, piped, final>>

\* Faulty variant: defects are treated like expected failures.
IsExpectedOrDefect(o) == o.tag \in {"Failure", "Die"}

\* Only an expected failure (Effect.fail) is in the error channel.
IsExpected(o) == o.tag = "Failure"

\* Faulty variant: a catchTag that ignores the tag.
TagMatchesAny(h, e) == TRUE

\* catchAll matches every error, catchTag / catchTags the given tags.
TagMatches(h, e) == h.how = "catchAll" \/ e \in h.tags

\* The handler h intercepts the outcome o.
Intercepts(h, o) == IsExpected(o) /\ TagMatches(h, o.error)

\* What the handler's description can end with.
Replacements == {Succeeded(0), FailedWith("NetworkError"), Died}

\* The outcome reaches the next handler of the pipe: the handler is run on
\* a failure it intercepts and its description replaces the outcome; any
\* other outcome passes.
HandlerStep ==
    /\ cphase = "handlers"
    /\ handlers # <<>>
    /\ LET h == Head(handlers) IN
       \E r \in Replacements :
          LET after == IF Intercepts(h, cur) THEN r ELSE cur IN
          /\ cur' = after
          /\ piped' = Append(piped, [h |-> h, before |-> cur,
                                     ran |-> Intercepts(h, cur), after |-> after])
    /\ handlers' = Tail(handlers)
    /\ UNCHANGED <<notChain, runVars, stage, executed, cphase, final>>

\* The pipe has been passed: its outcome is what the runner sees.
PipeEnd ==
    /\ cphase = "handlers"
    /\ handlers = <<>>
    /\ final' = cur
    /\ cphase' = "done"
    /\ UNCHANGED <<notChain, runVars, handlers, stage, executed, cur, piped>>

\* ----------------------------------------------- SpecChain: the runner
Runners == {"runSync", "runPromise", "runSyncExit", "runPromiseExit"}

NotReturned == [how |-> "none", exit |-> NoResult]

\* No effect is being run (the other specifications).
IdleRun ==
    /\ runner = "idle"
    /\ returned = NotReturned

\* Effect.runSync(program) / Effect.runPromise(program) /
\* Effect.runSyncExit(program) / Effect.runPromiseExit(program)
InitRun ==
    /\ runner \in Runners
    /\ returned = NotReturned

\* To get detailed result (Exit type)
IsExitRunner(r) == r \in {"runSyncExit", "runPromiseExit"}

\* The Exit a description's outcome is returned as: success, expected
\* failure, or defect / interruption.
ExitOf(o) ==
    IF o.tag = "Interrupt" THEN [tag |-> "Die", value |-> 0, error |-> "interrupted"]
    ELSE o

\* Faulty variant: the Exit runners still throw what is not a failure.
ThrowsDefects(r, o) ==
    o.tag # "Success" /\ (~IsExitRunner(r) \/ o.tag \in {"Die", "Interrupt"})

\* runSync throws (runPromise rejects) when the effect does not succeed;
\* the Exit runners return the Exit instead.
Throws(r, o) == o.tag # "Success" /\ ~IsExitRunner(r)

\* The runner gives the outcome of the program to its caller.
RunnerReturns ==
    /\ cphase = "done"
    /\ returned' =
          IF Throws(runner, final) THEN [how |-> "throw", exit |-> final]
          ELSE IF IsExitRunner(runner) THEN [how |-> "exit", exit |-> ExitOf(final)]
          ELSE [how |-> "value", exit |-> final]
    /\ cphase' = "returned"
    /\ UNCHANGED <<notChain, runner, handlers, stage, executed, cur, piped, final>>

\* -------------------------------------------------- SpecRelease: actions
MaxResources == 3

notRelease ==
    <<scopeVars, fiberVars, allVars, raceVars, retryVars, chainVars, runVars,
      mapVars, taskVars,
      cleanupVars>>

\* How a scoped body, an acquire step or a finalizer ended.
Ended(tag, src, id) == [tag |-> tag, src |-> src, id |-> id]
NotEnded == Ended("none", "none", 0)

\* No scoped effect with fallible steps is run (the other specifications).
IdleRelease ==
    /\ held = <<>>
    /\ acquired = 0
    /\ refused = {}
    /\ primary = NotEnded
    /\ released = <<>>
    /\ sphase = "idle"
    /\ sreport = NotEnded

\* Effect.scoped(Effect.gen(function* () { ... })) starts its body.
InitRelease ==
    /\ held = <<>>
    /\ acquired = 0
    /\ refused = {}
    /\ primary = NotEnded
    /\ released = <<>>
    /\ sphase = "body"
    /\ sreport = NotEnded

\* Faulty variant: release is registered before acquire has succeeded.
RegistersAlways(ok) == TRUE

\* acquireRelease registers release once acquire has returned the value.
Registers(ok) == ok

\* const handle = yield* openFileHandle(path): the acquire step succeeds
\* and release is registered, or it fails (FileOpenError) and ends the body.
AcquireStep ==
    /\ sphase = "body"
    /\ acquired < MaxResources
    /\ LET id == acquired + 1 IN
       \E ok \in BOOLEAN :
          /\ acquired' = id
          /\ held' = IF Registers(ok) THEN Append(held, id) ELSE held
          /\ IF ok
             THEN UNCHANGED <<refused, primary, sphase>>
             ELSE /\ refused' = refused \cup {id}
                  /\ primary' = Ended("Failure", "acquire", id)
                  /\ sphase' = "closing"
    /\ UNCHANGED <<notRelease, released, sreport>>

\* The body returns, fails, dies or is interrupted after its last acquire.
ScopedBodyEnd ==
    /\ sphase = "body"
    /\ \E t \in Exits : primary' = Ended(t, "body", 0)
    /\ sphase' = "closing"
    /\ UNCHANGED <<notRelease, held, acquired, refused, released, sreport>>

\* The closing scope runs its most recently registered finalizer, which
\* closes the resource or fails; the scope goes on with the remaining ones.
ReleaseStep ==
    /\ sphase = "closing"
    /\ held # <<>>
    /\ LET i == NextFinalizer(held) IN
       \E ok \in BOOLEAN :
          /\ released' = Append(released, [id |-> held[i], ok |-> ok])
          /\ held' = SubSeq(held, 1, i - 1)
    /\ UNCHANGED <<notRelease, acquired, refused, primary, sphase, sreport>>

FailedReleases == {i \in DOMAIN released : ~released[i].ok}

\* The first finalizer failure of the closing.
FirstFailedRelease ==
    released[CHOOSE i \in FailedReleases : \A j \in FailedReleases : i <= j].id

\* Faulty variant: a finalizer failure replaces the outcome of the body.
ScopedOutcomeFinalizerFirst ==
    IF FailedReleases # {} THEN Ended("Failure", "finalizer", FirstFailedRelease)
    ELSE primary

\* What Effect.scoped reports: the outcome of the body; a finalizer failure
\* only when the body did not fail.
ScopedOutcome ==
    IF primary.tag = "Success" /\ FailedReleases # {}
    THEN Ended("Failure", "finalizer", FirstFailedRelease)
    ELSE primary

\* The scope has closed and Effect.scoped reports.
ScopedReport ==
    /\ sphase = "closing"
    /\ held = <<>>
    /\ sreport' = ScopedOutcome
    /\ sphase' = "done"
    /\ UNCHANGED <<notRelease, held, acquired, refused, primary, released>>

\* ------------------------------------------------------ SpecMap: actions
MaxVal == 5
MaxOperand == 3

notMap ==
    <<scopeVars, fiberVars, allVars, raceVars, retryVars, chainVars, runVars,
      releaseVars, taskVars,
      cleanupVars>>

\* The pure functions of the examples: n => n * k and n => n + k.
Times(k) == [op |-> "times", k |-> k]
Plus(k) == [op |-> "plus", k |-> k]
PureFunctions == {Times(k) : k \in 1..MaxOperand} \cup {Plus(k) : k \in 1..MaxOperand}

\* The function applied to a value.
Apply(fn, v) == IF fn.op = "times" THEN v * fn.k ELSE v + fn.k

\* The descriptions mapped: Effect.succeed(v), Effect.fail(e), a defect.
MappedDescriptions ==
    {Succeeded(v) : v \in 0..MaxVal} \cup {FailedWith(e) : e \in Tags} \cup {Died}

\* Effect.map(fn): transforms the success value, passes anything else on.
Map(o, fn) == IF o.tag = "Success" THEN Succeeded(Apply(fn, o.value)) ELSE o

\* Faulty variant: the function given to the second map is applied first.
FusedSecondFirst(o, first, second) == Succeeded(Apply(first, Apply(second, o.value)))

\* One map by the function that does what the two maps of the pipe do, in
\* the order of the pipe: 5, then n * 2 gives 10, then n + 1 gives 11.
Fused(o, first, second) == Succeeded(Apply(second, Apply(first, o.value)))

\* No pipe of maps is built (the other specifications).
IdleMap ==
    /\ md = NoResult
    /\ mf = Plus(0)
    /\ mg = Plus(0)
    /\ twice = NoResult
    /\ once = NoResult
    /\ mpc = "idle"

\* pipe(d, Effect.map(f), Effect.map(g)) is about to run.
InitMap ==
    /\ md \in MappedDescriptions
    /\ mf \in PureFunctions
    /\ mg \in PureFunctions
    /\ twice = NoResult
    /\ once = NoResult
    /\ mpc = "first"

\* Effect.map(n => n * 2)      // 10
MapFirst ==
    /\ mpc = "first"
    /\ twice' = Map(md, mf)
    /\ mpc' = "second"
    /\ UNCHANGED <<notMap, md, mf, mg, once>>

\* Effect.map(n => n + 1)       // 11
MapSecond ==
    /\ mpc = "second"
    /\ twice' = Map(twice, mg)
    /\ mpc' = "fused"
    /\ UNCHANGED <<notMap, md, mf, mg, once>>

\* The same description mapped once, by the two functions fused.
MapOnce ==
    /\ mpc = "fused"
    /\ once' = IF md.tag = "Success" THEN Fused(md, mf, mg) ELSE md
    /\ mpc' = "done"
    /\ UNCHANGED <<notMap, md, mf, mg, twice>>

\* ------------------------------------------------- SpecLongTask: actions
MaxSleep == 2
MaxWait == 11

\* for (let i = 0; i < 10; i++)
Steps == 10

notTask ==
    <<scopeVars, fiberVars, allVars, raceVars, retryVars, chainVars, runVars,
      releaseVars, mapVars,
      cleanupVars>>

\* console.log(`Step ${i}`) and console.log("Fiber interrupted!")
Step(i) == [line |-> "Step", i |-> i]
InterruptedLine == [line |-> "Fiber interrupted!", i |-> 0]

\* longTask is not run (the other specifications).
IdleTask ==
    /\ now = 0
    /\ childSleep = 0
    /\ parentSleep = 0
    /\ childWake = 0
    /\ parentWake = 0
    /\ nextStep = 0
    /\ output = <<>>
    /\ tstatus = "idle"
    /\ ppc = "idle"

\* program is about to fork longTask; the two sleep durations, in seconds
\* ("1 second" and "3 seconds" in the example).
InitTask ==
    /\ now = 0
    /\ childSleep \in 1..MaxSleep
    /\ parentSleep \in 1..MaxWait
    /\ childWake = 0
    /\ parentWake = 0
    /\ nextStep = 0
    /\ output = <<>>
    /\ tstatus = "NotForked"
    /\ ppc = "fork"

\* const fiber = yield* Effect.fork(longTask); yield* Effect.sleep(...)
ForkLongTask ==
    /\ ppc = "fork"
    /\ tstatus' = "Started"
    /\ parentWake' = now + parentSleep
    /\ ppc' = "sleep"
    /\ UNCHANGED <<notTask, now, childSleep, parentSleep, childWake, nextStep, output>>

\* The child's timer is due (or the child has just been forked).
ChildDue == tstatus = "Started" \/ (tstatus = "Sleeping" /\ childWake = now)

\* The parent's timer is due.
ParentDue == ppc = "sleep" /\ parentWake = now

\* The child runs up to its next sleep: it logs Step i and sleeps, or it
\* leaves the loop and returns "done".
LongTaskStep ==
    /\ ChildDue
    /\ IF nextStep < Steps
       THEN /\ output' = Append(output, Step(nextStep))
            /\ nextStep' = nextStep + 1
            /\ childWake' = now + childSleep
            /\ tstatus' = "Sleeping"
       ELSE /\ tstatus' = "Done"
            /\ UNCHANGED <<output, nextStep, childWake>>
    /\ UNCHANGED <<notTask, now, childSleep, parentSleep, parentWake, ppc>>

\* yield* Fiber.interrupt(fiber): the parent's sleep is over, the sleeping
\* child is interrupted and logs nothing more.
InterruptLongTask ==
    /\ ParentDue
    /\ tstatus' = IF tstatus = "Done" THEN "Done" ELSE "Interrupted"
    /\ ppc' = "log"
    /\ UNCHANGED <<notTask, now, childSleep, parentSleep, childWake, parentWake,
                   nextStep, output>>

\* console.log("Fiber interrupted!")
LogInterrupted ==
    /\ ppc = "log"
    /\ output' = Append(output, InterruptedLine)
    /\ ppc' = "done"
    /\ UNCHANGED <<notTask, now, childSleep, parentSleep, childWake, parentWake,
                   nextStep, tstatus>>

\* The wake-up times of the timers that are set.
PendingWakes ==
    (IF tstatus = "Sleeping" THEN {childWake} ELSE {})
       \cup (IF ppc = "sleep" THEN {parentWake} ELSE {})

\* Time passes up to the next timer when no fiber can run; timers due at
\* the same instant fire in either order.
Tick ==
    /\ ~ChildDue
    /\ ~ParentDue
    /\ ppc # "log"
    /\ PendingWakes # {}
    /\ now' = CHOOSE w \in PendingWakes : \A x \in PendingWakes : w <= x
    /\ UNCHANGED <<notTask, childSleep, parentSleep, childWake, parentWake, nextStep,
                   output, tstatus, ppc>>

\* -------------------------------------------------- SpecCleanup: actions
MaxCleanups == 2
MaxInterrupters == 2

notCleanup ==
    <<scopeVars, fiberVars, allVars, raceVars, retryVars, chainVars, runVars,
      releaseVars, mapVars, taskVars>>

\* The fibers that call Fiber.interrupt(fiber), and the exit of the parent,
\* which interrupts the forked fiber too.
Interrupters == 1..MaxInterrupters
ParentExits == 0

\* A call on the fiber a caller is suspended in, or has returned from.
InterruptBy(i) == [op |-> "interrupt", by |-> i]
JoinByParent == [op |-> "join", by |-> ParentExits]

\* The scoped fiber is not forked (the other specifications).
IdleCleanup ==
    /\ kpc = "idle"
    /\ ksusp = "none"
    /\ kfins = <<>>
    /\ kruns = <<>>
    /\ ksig = {}
    /\ kout = "none"
    /\ kends = <<>>
    /\ kwait = {}
    /\ kret = {}

\* const fiber = yield* Effect.fork(scoped)
InitCleanup ==
    /\ kpc = "body"
    /\ ksusp = "none"
    /\ kfins = <<>>
    /\ kruns = <<>>
    /\ ksig = {}
    /\ kout = "none"
    /\ kends = <<>>
    /\ kwait = {}
    /\ kret = {}

\* The finalizers the fiber has registered so far.
Registered == Len(kfins) + Len(kruns)

\* yield* taskWithCleanup: the fiber registers a finalizer in its scope.
CleanupAcquire ==
    /\ kpc = "body" /\ ksusp = "none" /\ ksig = {}
    /\ Registered < MaxCleanups
    /\ kfins' = Append(kfins, Registered + 1)
    /\ UNCHANGED <<notCleanup, kpc, ksusp, kruns, ksig, kout, kends, kwait, kret>>

\* yield* Effect.sleep("10 seconds"), or a Fiber.join on another fiber:
\* the body suspends.
CleanupSuspend ==
    /\ kpc = "body" /\ ksusp = "none" /\ ksig = {}
    /\ ksusp' \in {"sleep", "join"}
    /\ UNCHANGED <<notCleanup, kpc, kfins, kruns, ksig, kout, kends, kwait, kret>>

\* The sleep is over, or the joined fiber has completed.
CleanupResume ==
    /\ kpc = "body" /\ ksusp # "none" /\ ksig = {}
    /\ ksusp' = "none"
    /\ UNCHANGED <<notCleanup, kpc, kfins, kruns, ksig, kout, kends, kwait, kret>>

\* The body returns or fails on its own: the scope starts closing.
CleanupBodyEnd ==
    /\ kpc = "body" /\ ksusp = "none" /\ ksig = {}
    /\ kout' \in {"Success", "Failure"}
    /\ kpc' = "closing"
    /\ UNCHANGED <<notCleanup, ksusp, kfins, kruns, ksig, kends, kwait, kret>>

\* An interruption is sent to the fiber unless it has terminated.
Signalled(i) == IF kpc = "done" THEN ksig ELSE ksig \cup {i}

\* yield* Fiber.interrupt(fiber): the caller sends the interruption and
\* suspends in the call.
CleanupInterruptCall ==
    /\ \E i \in Interrupters :
          /\ InterruptBy(i) \notin kwait \cup kret
          /\ ksig' = Signalled(i)
          /\ kwait' = kwait \cup {InterruptBy(i)}
    /\ UNCHANGED <<notCleanup, kpc, ksusp, kfins, kruns, kout, kends, kret>>

\* yield* Fiber.join(fiber): the parent suspends in the call.
CleanupJoinCall ==
    /\ JoinByParent \notin kwait \cup kret
    /\ ParentExits \notin ksig
    /\ kwait' = kwait \cup {JoinByParent}
    /\ UNCHANGED <<notCleanup, kpc, ksusp, kfins, kruns, ksig, kout, kends, kret>>

\* The parent exits while the fiber it forked is running: the fiber is
\* interrupted (Interrupted when parent exits).
CleanupParentExit ==
    /\ ParentExits \notin ksig
    /\ JoinByParent \notin kwait
    /\ kpc # "done"
    /\ ksig' = Signalled(ParentExits)
    /\ UNCHANGED <<notCleanup, kpc, ksusp, kfins, kruns, kout, kends, kwait, kret>>

\* Faulty variant: a fiber suspended in a join is not woken.
WakesUnlessJoining(susp) == susp # "join"

\* The interruption reaches the body wherever it is suspended.
Wakes(susp) == TRUE

\* The interruption reaches the fiber in its body: the body is abandoned
\* and the scope starts closing (a closing scope is not closed again).
CleanupInterrupted ==
    /\ kpc = "body" /\ ksig # {}
    /\ Wakes(ksusp)
    /\ kout' = "Interrupt"
    /\ ksusp' = "none"
    /\ kpc' = "closing"
    /\ UNCHANGED <<notCleanup, kfins, kruns, ksig, kends, kwait, kret>>

\* Faulty variant: a finalizer that has run stays registered.
RemainingAll(fins) == fins

\* A finalizer that has run is no longer registered.
Remaining(fins) == SubSeq(fins, 1, Len(fins) - 1)

\* The closing scope runs its most recently registered finalizer
\* ("Cleaned up!").
CleanupRunFinalizer ==
    /\ kpc = "closing" /\ kfins # <<>>
    /\ kruns' = Append(kruns, kfins[NextFinalizer(kfins)])
    /\ kfins' = Remaining(kfins)
    /\ UNCHANGED <<notCleanup, kpc, ksusp, ksig, kout, kends, kwait, kret>>

\* The fiber reaches its terminal state once its finalizers have all run.
CleanupFinish ==
    /\ kpc = "closing" /\ kfins = <<>>
    /\ kends' = Append(kends, ExitStatus(kout, ksig # {}))
    /\ kpc' = "done"
    /\ UNCHANGED <<notCleanup, ksusp, kfins, kruns, ksig, kout, kwait, kret>>

\* Fiber.interrupt and Fiber.join return once the fiber has terminated.
CleanupCallReturn ==
    /\ kpc = "done"
    /\ \E call \in kwait :
          /\ kwait' = kwait \ {call}
          /\ kret' = kret \cup {call}
    /\ UNCHANGED <<notCleanup, kpc, ksusp, kfins, kruns, ksig, kout, kends>>

\* ---------------------------------------------------------- specifications
IdleOthers == IdleRelease /\ IdleMap /\ IdleTask /\ IdleCleanup

IdlePatterns == IdleRace /\ IdleRetry /\ IdleChain /\ IdleRun /\ IdleOthers

Init == InitScope /\ InitFiber /\ IdleAll /\ IdlePatterns

NextScope ==
    \/ AcquireRelease
    \/ AddFinalizer
    \/ Use
    \/ ScopedOpen
    \/ BodyEnd
    \/ BodyInterrupted
    \/ RunFinalizer
    \/ ScopeReport

SpecScope == Init /\ [][NextScope]_vars

NextFiber ==
    \/ Fork
    \/ ChildAcquire
    \/ ChildBodyEnd
    \/ ChildInterrupted
    \/ ChildRunFinalizer
    \/ ChildFinish
    \/ JoinCall
    \/ JoinReturn
    \/ InterruptCall
    \/ InterruptReturn
    \/ ParentEnd
    \/ ParentInterrupted

SpecFiber == Init /\ [][NextFiber]_vars

NextAll ==
    \/ StartTask
    \/ TaskSucceeds
    \/ TasksFail
    \/ TaskInterrupted
    \/ AllReport

InitEffectAll == InitScope /\ InitFiber /\ InitAll /\ IdlePatterns

SpecAll == InitEffectAll /\ [][NextAll]_vars

NextRace ==
    \/ RacerAcquire
    \/ RacerBodyEnd
    \/ RacerInterrupted
    \/ RacerRunFinalizer
    \/ RacerFinish
    \/ RaceReport

InitEffectRace ==
    /\ InitScope /\ InitFiber /\ IdleAll /\ InitRace /\ IdleRetry /\ IdleChain
    /\ IdleRun /\ IdleOthers

SpecRace == InitEffectRace /\ [][NextRace]_vars

NextRetry ==
    \/ RunDescription
    \/ RetryDecide
    \/ RepeatDecide
    \/ Wait

InitEffectRetry ==
    /\ InitScope /\ InitFiber /\ IdleAll /\ IdleRace /\ InitRetry /\ IdleChain
    /\ IdleRun /\ IdleOthers

SpecRetry == InitEffectRetry /\ [][NextRetry]_vars

NextChain ==
    \/ StageRuns
    \/ HandlerStep
    \/ PipeEnd
    \/ RunnerReturns

InitEffectChain ==
    /\ InitScope /\ InitFiber /\ IdleAll /\ IdleRace /\ IdleRetry /\ InitChain
    /\ InitRun /\ IdleOthers

SpecChain == InitEffectChain /\ [][NextChain]_vars

IdleBase ==
    /\ InitScope /\ InitFiber /\ IdleAll /\ IdleRace /\ IdleRetry /\ IdleChain
    /\ IdleRun

NextRelease ==
    \/ AcquireStep
    \/ ScopedBodyEnd
    \/ ReleaseStep
    \/ ScopedReport

InitEffectScoped == IdleBase /\ InitRelease /\ IdleMap /\ IdleTask /\ IdleCleanup

SpecRelease == InitEffectScoped /\ [][NextRelease]_vars

NextMap ==
    \/ MapFirst
    \/ MapSecond
    \/ MapOnce

InitEffectMap == IdleBase /\ IdleRelease /\ InitMap /\ IdleTask /\ IdleCleanup

SpecMap == InitEffectMap /\ [][NextMap]_vars

NextLongTask ==
    \/ ForkLongTask
    \/ LongTaskStep
    \/ InterruptLongTask
    \/ LogInterrupted
    \/ Tick

InitLongTask == IdleBase /\ IdleRelease /\ IdleMap /\ InitTask /\ IdleCleanup

SpecLongTask == InitLongTask /\ [][NextLongTask]_vars

NextCleanup ==
    \/ CleanupAcquire
    \/ CleanupSuspend
    \/ CleanupResume
    \/ CleanupBodyEnd
    \/ CleanupInterruptCall
    \/ CleanupJoinCall
    \/ CleanupParentExit
    \/ CleanupInterrupted
    \/ CleanupRunFinalizer
    \/ CleanupFinish
    \/ CleanupCallReturn

InitForkScoped == IdleBase /\ IdleRelease /\ IdleMap /\ IdleTask /\ InitCleanup

SpecCleanup == InitForkScoped /\ [][NextCleanup]_vars

\* Fair scheduling: a fiber that can take a step of the runtime (being
\* interrupted, running a finalizer, terminating, returning from a call)
\* eventually takes it; finalizers terminate. Nothing is assumed about the
\* body: a sleep may be long and a joined fiber may never complete.
FairCleanup ==
    /\ WF_vars(CleanupInterrupted)
    /\ WF_vars(CleanupRunFinalizer)
    /\ WF_vars(CleanupFinish)
    /\ WF_vars(CleanupCallReturn)

SpecCleanupFair == InitForkScoped /\ [][NextCleanup]_vars /\ FairCleanup

\* ---------------------------------------------- SpecScope: trace operators
IsReg(e) == e.op \in {"acquire", "addFinalizer"}

RECURSIVE IdsOf(_, _, _)
\* The ids of the events of scope s that satisfy the test, in log order.
IdsOf(l, s, isFin) ==
    IF l = <<>> THEN <<>>
    ELSE LET e == Head(l)
             hit == e.scope = s /\ (IF isFin THEN e.op = "fin" ELSE IsReg(e))
         IN (IF hit THEN <<e.id>> ELSE <<>>) \o IdsOf(Tail(l), s, isFin)

RegOrder(s) == IdsOf(log, s, FALSE)
FinOrder(s) == IdsOf(log, s, TRUE)
OpenedScopes == {log[i].scope : i \in {j \in DOMAIN log : log[j].op = "open"}}
ReportAt(s) == {i \in DOMAIN log : log[i].op = "report" /\ log[i].scope = s}
Reported(s) == ReportAt(s) # {}
IsPrefix(a, b) == Len(a) <= Len(b) /\ SubSeq(b, 1, Len(a)) = a
Positions(op, id) == {i \in DOMAIN log : log[i].op = op /\ log[i].id = id}

\* C1: the finalizers registered in one scope (acquireRelease or
\* addFinalizer) run in exactly the reverse of their registration order: a
\* closed scope has run the exact reverse, a closing one a prefix of it.
C1_Lifo ==
    \A s \in OpenedScopes :
        IF Reported(s)
        THEN FinOrder(s) = Reverse(RegOrder(s))
        ELSE IsPrefix(FinOrder(s), Reverse(RegOrder(s)))

\* A scope with several finalizers was closed by an interruption.
C1_Witness ==
    /\ phase = "done"
    /\ exit = "Interrupt"
    /\ Len(RegOrder(1)) >= 2
    /\ FinOrder(1) = Reverse(RegOrder(1))

\* C2: once an acquisition has succeeded, its release runs at most once, is
\* never followed by a use of the resource, and has run exactly once, after
\* the last use, before the scope of the acquisition reports its outcome,
\* whatever that outcome is.
C2_ReleaseOnce ==
    \A i \in DOMAIN log :
        log[i].op = "acquire" =>
            LET r == log[i].id
                s == log[i].scope
                fin == Positions("fin", r)
                use == Positions("use", r)
            IN /\ Cardinality(fin) <= 1
               /\ \A f \in fin : \A u \in use : u < f
               /\ \A f \in fin : i < f
               /\ \A p \in ReportAt(s) :
                     /\ log[p].out \in Exits
                     /\ Cardinality(fin) = 1
                     /\ \A f \in fin : f < p

\* A resource was acquired and used, the body was interrupted mid-use, and
\* the release has run before the scoped description reported.
C2_Witness ==
    /\ phase = "done"
    /\ exit = "Interrupt"
    /\ \E i \in DOMAIN log :
          /\ log[i].op = "acquire"
          /\ Positions("use", log[i].id) # {}
          /\ Positions("fin", log[i].id) # {}

\* C3: when a finalizer of a scope runs, every scope opened inside it has
\* already reported, with all of its own finalizers run before that.
C3_InnerFirst ==
    \A i \in DOMAIN log :
        log[i].op = "fin" =>
            \A j \in 1..(i - 1) :
                (log[j].op = "open" /\ log[j].scope > log[i].scope) =>
                    \E k \in (j + 1)..(i - 1) :
                        /\ log[k].op = "report"
                        /\ log[k].scope = log[j].scope
                        /\ IdsOf(SubSeq(log, 1, k), log[j].scope, TRUE)
                              = Reverse(RegOrder(log[j].scope))

\* An inner scope with a finalizer was closed by a failure of its body, and
\* the outer scope's finalizer ran afterwards.
C3_Witness ==
    /\ phase = "done"
    /\ exit = "Failure"
    /\ FinOrder(1) # <<>>
    /\ FinOrder(2) # <<>>
    /\ \E p \in ReportAt(2) : log[p].out = "Failure"

\* ------------------------------------------------------ SpecFiber: claims

\* C4: a fiber leaves Running only for one of Succeeded, Failed, Interrupted,
\* stores the outcome of that state, and once terminal neither its status
\* nor its stored outcome changes under any later step (join, interrupt,
\* exit of the parent).
C4_TerminalOnce ==
    [][/\ \A c \in Children :
             /\ status[c] \in Terminal =>
                   status'[c] = status[c] /\ outcome'[c] = outcome[c]
             /\ status'[c] # status[c] =>
                   \/ status[c] = "NotForked" /\ status'[c] = "Running"
                   \/ status[c] = "Running" /\ status'[c] \in Terminal
             /\ status'[c] \in Terminal <=> outcome'[c].tag = status'[c]
       /\ pstatus \in Terminal => pstatus' = pstatus /\ pout' = pout
      ]_vars

\* A fiber that had already succeeded was interrupted and joined, the parent
\* has exited, and the fiber is still Succeeded.
C4_Witness ==
    \E c \in Children :
        /\ status[c] = "Succeeded"
        /\ c \in intrRet /\ c \notin intrRun
        /\ joinCount[c] > 0
        /\ pstatus \in Terminal

\* C5: a fiber is never Interrupted while a finalizer it registered has not
\* run, and Fiber.interrupt on a running fiber has not returned before the
\* target is Interrupted with all its finalizers run.
C5_InterruptWaits ==
    \A c \in Children :
        /\ status[c] = "Interrupted" => cfins[c] = 0
        /\ c \in intrRet => status[c] \in Terminal
        /\ c \in (intrRet \cap intrRun) =>
              status[c] = "Interrupted" /\ cfins[c] = 0

\* The caller is suspended in Fiber.interrupt while the interrupted target,
\* still Running, has a finalizer left to run.
C5_Witness ==
    \E c \in Children :
        /\ pwait = [op |-> "interrupt", c |-> c]
        /\ c \in intrRun
        /\ status[c] = "Running" /\ cpc[c] = "closing"
        /\ bodyOut[c] = "Interrupt"
        /\ cfins[c] > 0

\* C6: a child forked with Effect.fork that was Running when its parent
\* exited has been sent an interruption and can only end Interrupted.
C6_ForkInterrupted ==
    \A c \in aliveAtExit :
        kind[c] = "fork" => sig[c] /\ status[c] \in {"Running", "Interrupted"}

\* The parent failed while a forked child was running, and the child has
\* ended Interrupted.
C6_Witness ==
    \E c \in aliveAtExit :
        /\ kind[c] = "fork"
        /\ pstatus = "Failed"
        /\ c \notin intrRun
        /\ status[c] = "Interrupted"

\* C7: a child forked with Effect.forkDaemon that was Running when its
\* parent exited receives no interruption from that exit: it is interrupted
\* only if Fiber.interrupt was called on it.
C7_DaemonSurvives ==
    \A c \in aliveAtExit :
        kind[c] = "daemon" =>
            /\ sig[c] => c \in intrRun
            /\ status[c] = "Interrupted" => c \in intrRun

\* A daemon that was Running when its parent exited has Succeeded.
C7_Witness ==
    \E c \in aliveAtExit :
        /\ kind[c] = "daemon"
        /\ pstatus \in Terminal
        /\ status[c] = "Succeeded"

\* C8: Fiber.join returns only when the target is terminal; what it yields
\* is the target's stored outcome; a failure or interruption of the target
\* becomes the caller's own outcome; and the step in which a join returns
\* changes nothing of the target (its description is not run again).
C8_Join ==
    /\ [](\A c \in Children :
             joinCount[c] > 0 =>
                 /\ status[c] \in Terminal
                 /\ joined[c] = outcome[c]
                 /\ outcome[c].by = c
                 /\ status[c] # "Succeeded" =>
                       pstatus = status[c] /\ pout = outcome[c])
    /\ [][\A c \in Children :
             joinCount'[c] # joinCount[c] =>
                 /\ status[c] \in Terminal
                 /\ status'[c] = status[c] /\ outcome'[c] = outcome[c]
                 /\ cpc'[c] = cpc[c] /\ cfins'[c] = cfins[c]
                 /\ bodyOut'[c] = bodyOut[c]
                 /\ status[c] = "Succeeded" => pstatus' = "Running"
         ]_vars

\* Fiber.join on a succeeded fiber has returned twice.
C8_Witness ==
    \E c \in Children :
        /\ joinCount[c] = 2
        /\ status[c] = "Succeeded"
        /\ joined[c] = [tag |-> "Succeeded", by |-> c]

\* -------------------------------------------------------- SpecAll: claims

\* C9: when every description succeeds, Effect.all yields the results in
\* the order of the input list, whatever the concurrency option and the
\* order in which the descriptions completed.
C9_InputOrder ==
    allStatus = "succeeded" =>
        /\ reported.tag = "Success"
        /\ Len(reported.list) = MaxTasks
        /\ \A i \in Tasks : reported.list[i] = Value(i)

\* Effect.all succeeded with concurrency above one although a later task
\* completed before an earlier one.
C9_Witness ==
    /\ allStatus = "succeeded"
    /\ conc > 1
    /\ \E k \in DOMAIN done : \E m \in DOMAIN done : k < m /\ done[k] > done[m]

\* C10: when Effect.all reports a failure, no description is left Running,
\* every description that was in flight when the first failure was observed
\* has been interrupted, and the reported failure is the first observed one,
\* that of the lowest input index among simultaneous failures.
C10_FailFast ==
    allStatus = "failed" =>
        /\ Running = {}
        /\ \A i \in inFlight : tstate[i] = "interrupted"
        /\ firstFailed # {}
        /\ \A i \in firstFailed : reported.error <= Error(i)
        /\ \E i \in firstFailed : reported.error = Error(i)
        /\ reported.tag = "Failure"

\* Two descriptions failed at the same instant while a third was in flight,
\* and Effect.all has reported.
C10_Witness ==
    /\ allStatus = "failed"
    /\ Cardinality(firstFailed) >= 2
    /\ inFlight # {}
    /\ \E i \in Tasks : tstate[i] = "interrupted"

\* C11: in race(a, b) where a succeeds first, b's fiber never ends
\* Succeeded: it has been sent the interruption (unless it had failed
\* already) and ends Interrupted, and what the race returns is a's value.
C11_RaceWinner ==
    rmode = "race" =>
        \A a \in Racers :
            rst[a] = "Succeeded" =>
                /\ \A b \in Racers \ {a} :
                      /\ rst[b] # "Succeeded"
                      /\ rsig[b] \/ rst[b] = "Failed"
                      /\ (rst[b] \in Terminal /\ RacePos(b) > RacePos(a))
                            => rst[b] = "Interrupted"
                /\ rreport # NoRaceReport =>
                      rreport = [tag |-> "Success", some |-> TRUE,
                                 value |-> Value(a), error |-> 0]

\* The first participant has won, the second one, whose body would have
\* succeeded, ended Interrupted, and the race returned the first's value.
C11_Witness ==
    /\ rmode = "race"
    /\ rst[1] = "Succeeded"
    /\ rst[2] = "Interrupted"
    /\ rout[2] = "Success"
    /\ rreport.tag = "Success"
    /\ rreport.value = Value(1)

C13_Timeout ==
    rmode = "timeout" =>
        /\ rst[Timer] = "Succeeded" =>
              /\ rsig[Description]
              /\ rst[Description] \in {"Running", "Interrupted"}
              /\ rst[Description] = "Interrupted" => rfins[Description] = 0
              /\ rreport # NoRaceReport =>
                    /\ rreport.tag = "Success" /\ ~rreport.some
                    /\ rst[Description] = "Interrupted"
        /\ rst[Description] = "Succeeded" =>
              /\ rst[Timer] # "Succeeded"
              /\ rreport # NoRaceReport =>
                    rreport = [tag |-> "Success", some |-> TRUE,
                               value |-> Value(Description), error |-> 0]

\* The timer fired while the description held a resource: the description
\* ran its finalizer, ended Interrupted, and the timeout yielded None.
C13_Witness ==
    /\ rmode = "timeout"
    /\ rst[Timer] = "Succeeded"
    /\ rst[Description] = "Interrupted"
    /\ rran[Description] = 1
    /\ rreport.tag = "Success"
    /\ ~rreport.some

\* The retry is driven by recurs(k), alone or spaced out by a schedule that
\* never stops, and is not filtered.
BoundedRetry(k) ==
    /\ mode = "retry"
    /\ ~sched.filtered
    /\ sched.a = Recurs(k)
    /\ sched.composed = "single" \/ sched.b.kind # "recurs"

C15_Repeat ==
    mode = "repeat" =>
        /\ \A i \in 1..(Len(attempts) - 1) : attempts[i].tag = "Success"
        /\ rresult # NoResult => rphase = "done"
        /\ rphase = "done" =>
              /\ rresult = Last(attempts)
              /\ rresult.tag = "Success" =>
                    /\ ~Composed(sched, Len(delays)).cont
                    /\ rresult.value = Value(Len(attempts))

\* A repeat that ran more than once and ended with the schedule's stop.
C15_Witness ==
    /\ mode = "repeat"
    /\ rphase = "done"
    /\ Len(attempts) >= 2
    /\ rresult.tag = "Success"
    /\ rresult.value = Value(Len(attempts))

\* C16: in a retry filtered by whileInput (NetworkError only) over
\* recurs(K), only NetworkError failures are followed by another attempt;
\* any other failure is reported at once, and the retries made are exactly
\* the NetworkError failures that were retried, at most K of them.
C16_ConditionalRetry ==
    (mode = "retry" /\ sched.filtered) =>
        /\ \A i \in 1..(Len(attempts) - 1) :
              attempts[i].tag = "Failure" /\ attempts[i].error = "NetworkError"
        /\ Len(delays) <= Len(attempts)
        /\ \A i \in DOMAIN delays : attempts[i].error = "NetworkError"
        /\ sched.a.kind = "recurs" => Len(delays) <= sched.a.n
        /\ (rphase = "done" /\ rresult.tag = "Failure"
                /\ rresult.error # "NetworkError") =>
              /\ rresult = Last(attempts)
              /\ Len(delays) = Len(attempts) - 1

\* A NetworkError was retried, then a ValidationError was reported at once
\* although retries were left.
C16_Witness ==
    /\ mode = "retry"
    /\ sched.filtered
    /\ sched.a = Recurs(MaxRecurs)
    /\ rphase = "done"
    /\ attempts = <<FailedWith("NetworkError"), FailedWith("ValidationError")>>
    /\ rresult = FailedWith("ValidationError")
    /\ Len(delays) = 1

\* C17: the intersection of two schedules continues at a step exactly when
\* both continue, and then waits the longer of their two delays; so
\* intersect(recurs(K), spaced(d)) recurs at most K times, d apart.
C17_Intersect ==
    sched.composed = "intersect" =>
        /\ \A i \in DOMAIN decisions :
              LET e == decisions[i] IN
              /\ e.pass => (e.out.cont <=> (e.a.cont /\ e.b.cont))
              /\ e.out.cont =>
                    /\ e.out.delay = Longer(e.a.delay, e.b.delay)
                    /\ delays[i] = e.out.delay
        /\ \A k \in 0..MaxRecurs, d \in 1..MaxDelay :
              (sched.a = Recurs(k) /\ sched.b = Spaced(d)) =>
                  /\ Len(delays) <= k
                  /\ \A i \in DOMAIN delays : delays[i] = d
                  /\ clock <= k * d

\* intersect(recurs(K), spaced(d)) with the largest K and d: K recurrences
\* were made, d apart, and then the schedule stopped.
C17_Witness ==
    /\ sched.composed = "intersect"
    /\ sched.a = Recurs(MaxRecurs)
    /\ sched.b = Spaced(MaxDelay)
    /\ Len(delays) = MaxRecurs
    /\ clock = MaxRecurs * MaxDelay
    /\ rphase = "done"

\* C18: the stages of a chain execute in the written order, each once; a
\* stage is executed only if every stage before it returned a value, and
\* the outcome of the chain is the outcome of the last stage executed: the
\* error of the stage that failed.
C18_ChainOrder ==
    cphase # "idle" =>
        /\ \A i \in DOMAIN executed : executed[i].stage = i
        /\ \A i \in 1..(Len(executed) - 1) : executed[i].out.tag = "Success"
        /\ (cphase = "handlers" /\ piped = <<>>) => cur = Last(executed).out
        /\ (cphase = "done" /\ piped = <<>>) => final = Last(executed).out

\* The second stage of a longer chain failed: no later stage was executed
\* and its error is the outcome of the program.
C18_Witness ==
    /\ cphase = "done"
    /\ piped = <<>>
    /\ Len(executed) = 2
    /\ Len(executed) < MaxStages
    /\ executed[2].out = FailedWith("NetworkError")
    /\ final = FailedWith("NetworkError")

\* C19: catchTag(tag, handler) runs its handler exactly on the expected
\* failures whose _tag is the given tag, and then the handler's description
\* replaces the outcome; any other outcome passes through unchanged.
C19_CatchTag ==
    /\ \A i \in DOMAIN piped :
          LET e == piped[i] IN
          e.h.how = "catchTag" =>
              /\ e.ran <=> (e.before.tag = "Failure" /\ e.before.error \in e.h.tags)
              /\ e.ran => e.after \in Replacements
              /\ ~e.ran => e.after = e.before
    /\ \A i \in 1..(Len(piped) - 1) : piped[i + 1].before = piped[i].after
    /\ (cphase = "done" /\ piped # <<>>) => final = Last(piped).after

\* fail(DivisionError) piped into catchTag("DivisionError", () =>
\* succeed(0)) has returned 0.
C19_Witness ==
    /\ cphase = "done"
    /\ Len(executed) = 1
    /\ executed[1].out = FailedWith("DivisionError")
    /\ Len(piped) = 1
    /\ piped[1].h = CatchTag("DivisionError")
    /\ piped[1].ran
    /\ final = Succeeded(0)

C21_ExitRunners ==
    (IsExitRunner(runner) /\ cphase = "returned") =>
        /\ returned.how = "exit"
        /\ returned.exit.tag \in {"Success", "Failure", "Die"}
        /\ final.tag \in {"Success", "Failure"} => returned.exit = final
        /\ final.tag \in {"Die", "Interrupt"} => returned.exit.tag = "Die"

\* runSyncExit has returned Die for a program that was interrupted.
C21_Witness ==
    /\ runner = "runSyncExit"
    /\ cphase = "returned"
    /\ final = Interrupted
    /\ returned.how = "exit"
    /\ returned.exit.tag = "Die"

\* --------------------------------------------------- SpecRelease: claims
ReleasedIds == {released[i].id : i \in DOMAIN released}
Obtained == (1..acquired) \ refused

\* C22: when the body of a scoped effect did not succeed and a finalizer
\* fails too, the outcome reported is the one of the body; a finalizer
\* failure is reported only when the body succeeded; and the finalizers
\* after a failing one have all run when the scope reports.
C22_PrimaryFailure ==
    sphase = "done" =>
        /\ primary.tag # "Success" => sreport = primary
        /\ sreport.src = "finalizer" =>
              (primary.tag = "Success" /\ FailedReleases # {})
        /\ ReleasedIds = Obtained

\* The body failed, the finalizer of the second resource failed, the one
\* of the first resource ran after it, and the failure of the body is
\* what was reported.
C22_Witness ==
    /\ sphase = "done"
    /\ primary = Ended("Failure", "body", 0)
    /\ Len(released) = 2
    /\ released[1] = [id |-> 2, ok |-> FALSE]
    /\ released[2].id = 1
    /\ sreport = primary

\* C28: the release of a resource whose acquire failed, or was never
\* reached, is neither registered nor run, and the finalizers of the
\* resources acquired before it have run when the scope reports.
C28_FailedAcquire ==
    /\ \A i \in 1..Len(held) : held[i] \in Obtained
    /\ ReleasedIds \subseteq Obtained
    /\ sphase = "done" => ReleasedIds = Obtained

\* The third acquire failed: the finalizers of the first two resources
\* ran, the second one first, and nothing was released for the third.
C28_Witness ==
    /\ sphase = "done"
    /\ acquired = 3
    /\ refused = {3}
    /\ primary = Ended("Failure", "acquire", 3)
    /\ Len(released) = 2
    /\ released[1].id = 2
    /\ released[2].id = 1

\* ------------------------------------------------------- SpecMap: claims
\* C23 as stated: mapping d by f and then by g gives what mapping d once
\* by the composition f after g, v |-> f(g(v)), gives.
C23_FAfterG ==
    mpc = "done" =>
        twice = IF md.tag = "Success"
                THEN Succeeded(Apply(mf, Apply(mg, md.value)))
                ELSE md

\* C23: mapping d by f and then by g gives what mapping d once by the
\* composition g after f, v |-> g(f(v)), gives; a description that does
\* not succeed is left as it is by both.
C23_MapFusion == mpc = "done" => twice = once

\* succeed(5) mapped by n => n * 2 and then by n => n + 1 is 11, and so is
\* the single map.
C23_Witness ==
    /\ mpc = "done"
    /\ md = Succeeded(5)
    /\ mf = Times(2)
    /\ mg = Plus(1)
    /\ twice = Succeeded(11)
    /\ once = Succeeded(11)

\* ------------------------------------------------------- SpecAll: limits
Started == {i \in Tasks : tstate[i] # "pending"}
Finished == {i \in Tasks : tstate[i] \notin {"pending", "running"}}

\* C24: Effect.all with concurrency n never has more than n of its tasks
\* running, and sequential Effect.all (the default, one at a time) has
\* started task i + 1 only when task i has finished.
C24_ConcurrencyLimit ==
    allStatus # "idle" =>
        /\ Cardinality(Started \ Finished) <= conc
        /\ conc = 1 => \A i \in Tasks : (i + 1) \in Started => i \in Finished

\* With { concurrency: 2 } the third task was started once the first had
\* finished: two of three tasks are running.
C24_Witness ==
    /\ conc = 2
    /\ tstate[1] = "succeeded"
    /\ tstate[2] = "running"
    /\ tstate[3] = "running"

\* ------------------------------------------------- SpecRetry: run counts
\* C25 as stated: Schedule.recurs(n) makes the effect run exactly n times:
\* Effect.repeat of a description that always succeeds, under recurs(n)
\* alone, has run it n times in total when it returns.
C25_RunsExactlyN ==
    \A k \in 0..MaxRecurs :
        ( /\ mode = "repeat"
          /\ sched.composed = "single"
          /\ sched.a = Recurs(k)
          /\ rphase = "done"
          /\ rresult.tag = "Success" ) => Len(attempts) = k

\* ------------------------------------------------ SpecRace: the fallback
\* fetchWithFallback races the fetch against a failure delayed by 5 seconds.
Primary == 1
DelayedFailure == 2

\* The delayed failure has fired before the fetch has completed.
FiredFirst ==
    /\ rmode = "race"
    /\ rfinished # <<>>
    /\ Head(rfinished) = DelayedFailure
    /\ rst[DelayedFailure] = "Failed"

\* C26 as stated: when the delayed failure fires before the fetch has
\* completed, the fetch is interrupted and the race ends with the failure
\* of the delayed participant (TimeoutError).
C26_FailureBoundsWait ==
    FiredFirst =>
        /\ rsig[Primary]
        /\ rreport # NoRaceReport =>
              (rreport.tag = "Failure" /\ rreport.error = Error(DelayedFailure))

\* -------------------------------------------------- SpecLongTask: claims
\* C27 as stated: with the child sleeping 1 second after each step and the
\* parent sleeping 3 seconds before Fiber.interrupt, Step 3 is never logged
\* and the log of the finished program is exactly Step 0, Step 1, Step 2,
\* "Fiber interrupted!".
C27_DocumentedOutput ==
    (childSleep = 1 /\ parentSleep = 3) =>
        /\ \A i \in DOMAIN output : output[i] # Step(3)
        /\ ppc = "done" =>
              output = <<Step(0), Step(1), Step(2), InterruptedLine>>

\* --------------------------------------------------- SpecCleanup: claims
\* The number of times finalizer id has run.
RunsOf(id) == Cardinality({i \in DOMAIN kruns : kruns[i] = id})

\* C29: whatever closes the scope of a forked scoped fiber (the end of its
\* body, one or several Fiber.interrupt calls, the exit of its parent, in
\* any order), each finalizer it registered runs at most once, exactly
\* once by the time the fiber is terminal, and the fiber enters exactly one
\* terminal state.
C29_FinalizersOnce ==
    /\ \A id \in 1..MaxCleanups : RunsOf(id) <= 1
    /\ \A i \in DOMAIN kruns : kruns[i] \in 1..Registered
    /\ Len(kends) <= 1
    /\ kpc = "done" <=> Len(kends) = 1
    /\ kpc = "done" => \A id \in 1..Registered : RunsOf(id) = 1

\* The body had completed when two Fiber.interrupt calls and the exit of
\* the parent reached the closing fiber: both finalizers ran once, the
\* last registered first, and the fiber is in one terminal state.
C29_Witness ==
    /\ kpc = "done"
    /\ kout = "Success"
    /\ {ParentExits, 1, 2} \subseteq ksig
    /\ kruns = <<2, 1>>
    /\ Len(kends) = 1

\* C30: under fair scheduling, with finalizers that terminate, every
\* Fiber.interrupt call returns, every fiber that was sent an interruption
\* reaches a terminal state, and a Fiber.join on such a fiber returns,
\* also when the fiber was suspended in a sleep or in a join of its own.
C30_InterruptReturns ==
    /\ \A i \in Interrupters :
          (InterruptBy(i) \in kwait) ~> (InterruptBy(i) \in kret)
    /\ (ksig # {}) ~> (kpc = "done")
    /\ (JoinByParent \in kwait /\ ksig # {}) ~> (JoinByParent \in kret)

\* The fiber was interrupted while suspended in a join, ran its finalizer
\* and terminated; the Fiber.interrupt call and the Fiber.join on it have
\* returned.
C30_Witness ==
    /\ kpc = "done"
    /\ kout = "Interrupt"
    /\ kruns # <<>>
    /\ kends = <<"Interrupted">>
    /\ InterruptBy(1) \in kret
    /\ JoinByParent \in kret

====
